---- MODULE Spec2Model ----
(***************************************************************************)
(* The bound IDL AST data model of buildscripts/idl/idl/ast.py.            *)
(*                                                                         *)
(* The classes of ast.py are plain Python objects: a constructor that      *)
(* takes only a source location (IDLBoundSpec excepted) and sets every     *)
(* attribute to its default, public attributes that are populated by       *)
(* assignment, and list attributes that are populated by list.append.      *)
(* The model is the object heap these classes build:                       *)
(*   heap   the objects, in allocation order; a reference is an index      *)
(*   lists  the Python list objects, in allocation order; a list           *)
(*          attribute holds the index of its list                          *)
(*   last   the last operation performed, whether it raised, and the       *)
(*          arguments of an IDLBoundSpec(...) call                         *)
(***************************************************************************)
EXTENDS Integers, Sequences, FiniteSets, TLC

VARIABLES heap, lists, last

vars == <<heap, lists, last>>

(***************************************************************************)
(* Values.                                                                 *)
(***************************************************************************)
\* Python's None in an attribute that holds text (unicode) or an opaque value.
None == "None"
\* Python's None in an attribute that holds a reference to another node.
NoneRef == 0

\* Bounds of the scenarios: the objects allocated in each, and the elements
\* appended to one list.
MaxObjs == 2
MaxBoundObjs == 4
MaxStructObjs == 5
MaxFieldObjs == 2
MaxSettingObjs == 2
MaxGlobalObjs == 4
MaxListObjs == 3
MaxFreshObjs == 2
MaxLen == 2
MaxTexts == 1

\* The arguments (file_name, line, column) the constructors are called with.
Locations == {<<"a.idl", 1, 1>>}
\* Names given to Fields.
FieldNames == {"a", "b"}
\* The text assigned to the other unicode attributes and appended to the
\* unicode lists.
Texts == {"x"}
\* The five predicates of a Validator.
Predicates == {"gt", "lt", "gte", "lte", "callback"}
\* The attributes of a ServerParameter and of a ConfigOption that select and
\* fill its mode.
ServerParameterModeAttrs ==
    {"cpp_varname", "default", "from_bson", "append_bson", "from_string"}
ConfigOptionModeAttrs == {"cpp_varname", "default"}
\* The error collections (errors.ParserErrorCollection) handed to IDLBoundSpec.
ErrorCollections == {"errors"}

Merge(r1, r2) == [k \in (DOMAIN r1) \cup (DOMAIN r2) |->
                     IF k \in DOMAIN r1 THEN r1[k] ELSE r2[k]]

\* common.SourceLocation.__init__, reached through super().__init__.
SourceLocationInit(loc) ==
    [file_name |-> loc[1], line |-> loc[2], column |-> loc[3]]

(***************************************************************************)
(* Constructors.  l is the number of list objects allocated so far: the    *)
(* n-th `[]` a constructor evaluates is the fresh list l + n.              *)
(***************************************************************************)
\* Mutant: the assert only rules out "both".
IDLBoundSpecAssertNotBoth(spec, error_collection) ==
    spec = NoneRef \/ error_collection = None

\* Mutant: the assert only rules out "neither".
IDLBoundSpecAssertNotNeither(spec, error_collection) ==
    spec # NoneRef \/ error_collection # None

\* The assert of IDLBoundSpec.__init__.
IDLBoundSpecAssert(spec, error_collection) ==
    \/ spec = NoneRef /\ error_collection # None
    \/ spec # NoneRef /\ error_collection = None

IDLBoundSpecInit(spec, error_collection) ==
    [cls |-> "IDLBoundSpec", spec |-> spec, errors |-> error_collection]

\* Mutant: globals starts as a list display, like the attributes after it.
IDLASTInitGlobalsList(l) ==
    [cls |-> "IDLAST",
     globals |-> l + 1,
     commands |-> l + 1,
     enums |-> l + 2,
     structs |-> l + 3,
     server_parameters |-> l + 4,
     configs |-> l + 5]

IDLASTInit(l) ==
    [cls |-> "IDLAST",
     globals |-> NoneRef,
     commands |-> l + 1,
     enums |-> l + 2,
     structs |-> l + 3,
     server_parameters |-> l + 4,
     configs |-> l + 5]

GlobalInit(l, loc) ==
    Merge([cls |-> "Global",
           cpp_namespace |-> None,
           cpp_includes |-> l + 1,
           configs |-> NoneRef],
          SourceLocationInit(loc))

\* Mutant: fields is no fresh list but the list evaluated last before the
\* call (a list kept in one place for all instances).
StructInitSharedFields(l, loc) ==
    Merge([cls |-> "Struct",
           name |-> None,
           cpp_name |-> None,
           description |-> None,
           strict |-> TRUE,
           immutable |-> FALSE,
           inline_chained_structs |-> FALSE,
           generate_comparison_operators |-> FALSE,
           fields |-> IF l = 0 THEN 1 ELSE l],
          SourceLocationInit(loc))

StructInit(l, loc) ==
    Merge([cls |-> "Struct",
           name |-> None,
           cpp_name |-> None,
           description |-> None,
           strict |-> TRUE,
           immutable |-> FALSE,
           inline_chained_structs |-> FALSE,
           generate_comparison_operators |-> FALSE,
           fields |-> l + 1],
          SourceLocationInit(loc))

\* Mutant: callback starts as the empty text instead of None.
ValidatorInitEmptyCallback(loc) ==
    Merge([cls |-> "Validator",
           gt |-> None,
           lt |-> None,
           gte |-> None,
           lte |-> None,
           callback |-> ""],
          SourceLocationInit(loc))

ValidatorInit(loc) ==
    Merge([cls |-> "Validator",
           gt |-> None,
           lt |-> None,
           gte |-> None,
           lte |-> None,
           callback |-> None],
          SourceLocationInit(loc))

\* The attributes Field.__init__ sets before it runs super().__init__.
FieldDefaults ==
    [cls |-> "Field",
     name |-> None,
     description |-> None,
     cpp_name |-> None,
     optional |-> FALSE,
     ignore |-> FALSE,
     chained |-> FALSE,
     comparison_order |-> -1,
     cpp_type |-> None,
     bson_serialization_type |-> None,
     serializer |-> None,
     deserializer |-> None,
     bindata_subtype |-> None,
     default |-> None,
     struct_type |-> None,
     array |-> FALSE,
     supports_doc_sequence |-> FALSE,
     enum_type |-> FALSE,
     chained_struct_field |-> NoneRef,
     serialize_op_msg_request_only |-> FALSE,
     constructed |-> FALSE,
     validator |-> NoneRef]

\* Mutant: struct_type starts as the empty text instead of None.
FieldInitEmptyStructType(loc) ==
    Merge([FieldDefaults EXCEPT !.struct_type = ""], SourceLocationInit(loc))

FieldInit(loc) ==
    Merge(FieldDefaults, SourceLocationInit(loc))

\* Command.__init__ sets its own two attributes, then runs Struct.__init__.
CommandInit(l, loc) ==
    Merge([cls |-> "Command",
           namespace |-> None,
           command_field |-> NoneRef],
          StructInit(l, loc))

EnumValueInit(loc) ==
    Merge([cls |-> "EnumValue",
           name |-> None,
           value |-> None],
          SourceLocationInit(loc))

EnumInit(l, loc) ==
    Merge([cls |-> "Enum",
           name |-> None,
           description |-> None,
           cpp_namespace |-> None,
           type |-> None,
           values |-> l + 1],
          SourceLocationInit(loc))

ConditionInit(loc) ==
    Merge([cls |-> "Condition",
           expr |-> None,
           constexpr |-> None,
           preprocessor |-> None],
          SourceLocationInit(loc))

\* Mutant: cpp_varname starts as the empty text instead of None.
ServerParameterInitEmptyVarname(l, loc) ==
    Merge([cls |-> "ServerParameter",
           name |-> None,
           set_at |-> None,
           description |-> None,
           cpp_vartype |-> None,
           cpp_varname |-> "",
           condition |-> NoneRef,
           redact |-> FALSE,
           deprecated_name |-> l + 1,
           default |-> None,
           validator |-> NoneRef,
           on_update |-> None,
           from_bson |-> None,
           append_bson |-> None,
           from_string |-> None],
          SourceLocationInit(loc))

ServerParameterInit(l, loc) ==
    Merge([cls |-> "ServerParameter",
           name |-> None,
           set_at |-> None,
           description |-> None,
           cpp_vartype |-> None,
           cpp_varname |-> None,
           condition |-> NoneRef,
           redact |-> FALSE,
           deprecated_name |-> l + 1,
           default |-> None,
           validator |-> NoneRef,
           on_update |-> None,
           from_bson |-> None,
           append_bson |-> None,
           from_string |-> None],
          SourceLocationInit(loc))

ConfigGlobalInit(loc) ==
    Merge([cls |-> "ConfigGlobal",
           initializer_name |-> None],
          SourceLocationInit(loc))

ConfigOptionInit(l, loc) ==
    Merge([cls |-> "ConfigOption",
           name |-> None,
           short_name |-> None,
           deprecated_name |-> l + 1,
           deprecated_short_name |-> l + 2,
           description |-> None,
           section |-> None,
           arg_vartype |-> None,
           cpp_vartype |-> None,
           cpp_varname |-> None,
           condition |-> NoneRef,
           conflicts |-> l + 3,
           requires |-> l + 4,
           hidden |-> FALSE,
           redact |-> FALSE,
           default |-> None,
           implicit |-> None,
           source |-> None,
           duplicates_append |-> FALSE,
           positional_start |-> None,
           positional_end |-> None,
           validator |-> NoneRef],
          SourceLocationInit(loc))

(***************************************************************************)
(* The heap.                                                               *)
(***************************************************************************)
Ids == 1..Len(heap)

\* The live objects of class c.
Refs(c) == {o \in Ids : heap[o].cls = c}

\* The content of list attribute k of object o.
ListOf(o, k) == lists[heap[o][k]]

\* The record of an operation that takes no IDLBoundSpec arguments and
\* does not raise.
Did(op) == [op |-> op, spec |-> NoneRef, errors |-> None, raised |-> FALSE]

\* The attributes of an object of class c that hold a list.
ListAttrs(c) ==
    CASE c = "IDLAST" ->
             {"commands", "enums", "structs", "server_parameters", "configs"}
      [] c = "Global" -> {"cpp_includes"}
      [] c \in {"Struct", "Command"} -> {"fields"}
      [] c = "Enum" -> {"values"}
      [] c = "ServerParameter" -> {"deprecated_name"}
      [] c = "ConfigOption" ->
             {"deprecated_name", "deprecated_short_name", "conflicts", "requires"}
      [] OTHER -> {}

\* The collections: the pairs of an object and one of its list attributes.
Collections == UNION {{<<o, k>> : k \in ListAttrs(heap[o].cls)} : o \in Ids}

Init ==
    /\ heap = <<>>
    /\ lists = <<>>
    /\ last = Did("start")

\* A constructor call that returns obj, having evaluated n list displays `[]`.
Construct(obj, n) ==
    /\ heap' = Append(heap, obj)
    /\ lists' = lists \o [i \in 1..n |-> <<>>]
    /\ last' = Did(obj.cls)

\* The attribute assignment o.k = v.
Store(o, k, v) ==
    /\ heap' = [heap EXCEPT ![o][k] = v]
    /\ last' = Did("setattr")
    /\ UNCHANGED lists

\* Mutant: the element is put at the front, o.k.insert(0, e).
ListPrepend(o, k, e, max) ==
    /\ Len(ListOf(o, k)) < max
    /\ lists' = [lists EXCEPT ![heap[o][k]] = <<e>> \o @]
    /\ last' = Did("append")
    /\ UNCHANGED heap

\* The call o.k.append(e); max bounds the length of the list.
ListAppend(o, k, e, max) ==
    /\ Len(ListOf(o, k)) < max
    /\ lists' = [lists EXCEPT ![heap[o][k]] = Append(@, e)]
    /\ last' = Did("append")
    /\ UNCHANGED heap

(***************************************************************************)
(* Operations: one per constructor, and the assignments and appends that   *)
(* populate the nodes.  max bounds the number of objects of the scenario.  *)
(***************************************************************************)
\* Mutant: a constructor that moves the Structs out of the IDLAST it wraps.
NewIDLBoundSpecDraining(max) ==
    \E spec \in {NoneRef} \cup Refs("IDLAST"),
       error_collection \in {None} \cup ErrorCollections :
        /\ Len(heap) < max
        /\ IF IDLBoundSpecAssert(spec, error_collection)
           THEN /\ heap' = Append(heap, IDLBoundSpecInit(spec, error_collection))
                /\ lists' = IF spec = NoneRef THEN lists
                             ELSE [lists EXCEPT ![heap[spec].structs] = <<>>]
           ELSE UNCHANGED <<heap, lists>>
        /\ last' = [op |-> "IDLBoundSpec", spec |-> spec, errors |-> error_collection,
                    raised |-> ~IDLBoundSpecAssert(spec, error_collection)]

\* IDLBoundSpec(spec, error_collection): the assert fails before any
\* attribute is assigned, and the caller then receives no object.
NewIDLBoundSpec(max) ==
    \E spec \in {NoneRef} \cup Refs("IDLAST"),
       error_collection \in {None} \cup ErrorCollections :
        /\ Len(heap) < max
        /\ IF IDLBoundSpecAssert(spec, error_collection)
           THEN heap' = Append(heap, IDLBoundSpecInit(spec, error_collection))
           ELSE heap' = heap
        /\ last' = [op |-> "IDLBoundSpec", spec |-> spec, errors |-> error_collection,
                    raised |-> ~IDLBoundSpecAssert(spec, error_collection)]
        /\ UNCHANGED lists

NewIDLAST(max) ==
    /\ Len(heap) < max
    /\ Construct(IDLASTInit(Len(lists)), 5)

NewStruct(max) ==
    \E loc \in Locations :
        /\ Len(heap) < max
        /\ Construct(StructInit(Len(lists), loc), 1)

NewField(max) ==
    \E loc \in Locations :
        /\ Len(heap) < max
        /\ Construct(FieldInit(loc), 0)

\* field.name = <name>
SetFieldName ==
    \E f \in Refs("Field"), v \in FieldNames : Store(f, "name", v)

NewGlobal(max) ==
    \E loc \in Locations :
        /\ Len(heap) < max
        /\ Construct(GlobalInit(Len(lists), loc), 1)

NewValidator(max) ==
    \E loc \in Locations :
        /\ Len(heap) < max
        /\ Construct(ValidatorInit(loc), 0)

NewCommand(max) ==
    \E loc \in Locations :
        /\ Len(heap) < max
        /\ Construct(CommandInit(Len(lists), loc), 1)

NewEnumValue(max) ==
    \E loc \in Locations :
        /\ Len(heap) < max
        /\ Construct(EnumValueInit(loc), 0)

NewEnum(max) ==
    \E loc \in Locations :
        /\ Len(heap) < max
        /\ Construct(EnumInit(Len(lists), loc), 1)

NewCondition(max) ==
    \E loc \in Locations :
        /\ Len(heap) < max
        /\ Construct(ConditionInit(loc), 0)

NewServerParameter(max) ==
    \E loc \in Locations :
        /\ Len(heap) < max
        /\ Construct(ServerParameterInit(Len(lists), loc), 1)

NewConfigGlobal(max) ==
    \E loc \in Locations :
        /\ Len(heap) < max
        /\ Construct(ConfigGlobalInit(loc), 0)

NewConfigOption(max) ==
    \E loc \in Locations :
        /\ Len(heap) < max
        /\ Construct(ConfigOptionInit(Len(lists), loc), 4)

\* ast.globals = <Global>
SetGlobals ==
    \E a \in Refs("IDLAST"), g \in Refs("Global") : Store(a, "globals", g)

\* global.configs = <ConfigGlobal>
SetGlobalConfigs ==
    \E g \in Refs("Global"), c \in Refs("ConfigGlobal") : Store(g, "configs", c)

\* validator.gt = <value>, and so on for lt, gte, lte and callback; the value
\* copied from the syntax tree may be None.
SetValidatorPredicate ==
    \E v \in Refs("Validator"), k \in Predicates, x \in {None} \cup Texts :
        Store(v, k, x)

\* field.cpp_type = <type>
SetFieldCppType ==
    \E f \in Refs("Field"), x \in Texts : Store(f, "cpp_type", x)

\* field.struct_type = <struct name>
SetFieldStructType ==
    \E f \in Refs("Field"), x \in Texts : Store(f, "struct_type", x)

\* field.enum_type = True
SetFieldEnumType ==
    \E f \in Refs("Field") : Store(f, "enum_type", TRUE)

\* field.validator = <Validator>
SetFieldValidator ==
    \E f \in Refs("Field"), v \in Refs("Validator") : Store(f, "validator", v)

\* param.cpp_varname = <name>, param.default = ..., param.from_bson = ...
SetServerParameterAttr ==
    \E p \in Refs("ServerParameter"), k \in ServerParameterModeAttrs, x \in Texts :
        Store(p, k, x)

\* option.cpp_varname = <name>, option.default = ...
SetConfigOptionAttr ==
    \E c \in Refs("ConfigOption"), k \in ConfigOptionModeAttrs, x \in Texts :
        Store(c, k, x)

\* param.validator = <Validator>, option.validator = <Validator>
SetSettingValidator ==
    \E p \in Refs("ServerParameter") \cup Refs("ConfigOption"),
       v \in Refs("Validator") :
        Store(p, "validator", v)

\* param.condition = <Condition>, option.condition = <Condition>
SetSettingCondition ==
    \E p \in Refs("ServerParameter") \cup Refs("ConfigOption"),
       c \in Refs("Condition") :
        Store(p, "condition", c)

\* ast.commands.append(command)
AppendCommands ==
    \E a \in Refs("IDLAST"), c \in Refs("Command") : ListAppend(a, "commands", c, MaxLen)

\* ast.enums.append(enum)
AppendEnums ==
    \E a \in Refs("IDLAST"), e \in Refs("Enum") : ListAppend(a, "enums", e, MaxLen)

\* ast.structs.append(struct)
AppendStructs ==
    \E a \in Refs("IDLAST"), s \in Refs("Struct") : ListAppend(a, "structs", s, MaxLen)

\* ast.server_parameters.append(param)
AppendServerParameters ==
    \E a \in Refs("IDLAST"), p \in Refs("ServerParameter") :
        ListAppend(a, "server_parameters", p, MaxLen)

\* ast.configs.append(option)
AppendConfigs ==
    \E a \in Refs("IDLAST"), c \in Refs("ConfigOption") : ListAppend(a, "configs", c, MaxLen)

\* Mutant: an append that skips a Field whose name the Struct already has.
AppendFieldsUnique ==
    \E s \in Refs("Struct") \cup Refs("Command"), f \in Refs("Field") :
        IF \E i \in 1..Len(ListOf(s, "fields")) :
               heap[ListOf(s, "fields")[i]].name = heap[f].name
        THEN last' = Did("append") /\ UNCHANGED <<heap, lists>>
        ELSE ListAppend(s, "fields", f, MaxLen)

\* struct.fields.append(field), command.fields.append(field)
AppendFields ==
    \E s \in Refs("Struct") \cup Refs("Command"), f \in Refs("Field") :
        ListAppend(s, "fields", f, MaxLen)

\* enum.values.append(enum_value)
AppendValues ==
    \E e \in Refs("Enum"), v \in Refs("EnumValue") : ListAppend(e, "values", v, MaxLen)

\* global.cpp_includes.append(include)
AppendCppIncludes ==
    \E g \in Refs("Global"), x \in Texts : ListAppend(g, "cpp_includes", x, MaxTexts)

\* param.deprecated_name.append(name)
AppendServerParameterNames ==
    \E p \in Refs("ServerParameter"), x \in Texts :
        ListAppend(p, "deprecated_name", x, MaxTexts)

\* option.deprecated_name.append(name), and so on for deprecated_short_name,
\* conflicts and requires
AppendConfigOptionTexts ==
    \E c \in Refs("ConfigOption"), x \in Texts,
       k \in {"deprecated_name", "deprecated_short_name", "conflicts", "requires"} :
        ListAppend(c, k, x, MaxTexts)

(***************************************************************************)
(* The whole model: every constructor, assignment and append, from an      *)
(* empty heap.  The scenarios after it are parts of it, each with the      *)
(* classes and the bound that its properties need.                         *)
(***************************************************************************)
Next ==
    \/ NewIDLBoundSpec(MaxObjs)
    \/ NewIDLAST(MaxObjs)
    \/ NewGlobal(MaxObjs)
    \/ NewStruct(MaxObjs)
    \/ NewValidator(MaxObjs)
    \/ NewField(MaxObjs)
    \/ NewCommand(MaxObjs)
    \/ NewEnumValue(MaxObjs)
    \/ NewEnum(MaxObjs)
    \/ NewCondition(MaxObjs)
    \/ NewServerParameter(MaxObjs)
    \/ NewConfigGlobal(MaxObjs)
    \/ NewConfigOption(MaxObjs)
    \/ SetGlobals
    \/ SetGlobalConfigs
    \/ SetValidatorPredicate
    \/ SetFieldName
    \/ SetFieldCppType
    \/ SetFieldStructType
    \/ SetFieldEnumType
    \/ SetFieldValidator
    \/ SetServerParameterAttr
    \/ SetConfigOptionAttr
    \/ SetSettingValidator
    \/ SetSettingCondition
    \/ AppendCommands
    \/ AppendEnums
    \/ AppendStructs
    \/ AppendServerParameters
    \/ AppendConfigs
    \/ AppendFields
    \/ AppendValues
    \/ AppendCppIncludes
    \/ AppendServerParameterNames
    \/ AppendConfigOptionTexts

Spec == Init /\ [][Next]_vars

(***************************************************************************)
(* Scenario: the hand-over.  IDLASTs with Structs are built from an empty  *)
(* heap and wrapped in IDLBoundSpecs; building may go on afterwards.       *)
(***************************************************************************)
NextBound ==
    \/ NewIDLAST(MaxBoundObjs)
    \/ NewStruct(MaxBoundObjs)
    \/ NewIDLBoundSpec(MaxBoundObjs)
    \/ AppendStructs

SpecBound == Init /\ [][NextBound]_vars

(***************************************************************************)
(* Scenario: one Struct.  Starts after                                     *)
(*     ast = IDLAST(); struct = Struct(...); ast.structs.append(struct)    *)
(* and goes on with the Fields of the Struct and the hand-over.            *)
(***************************************************************************)
InitStruct ==
    /\ \E loc \in Locations :
           heap = <<IDLASTInit(0), StructInit(5, loc)>>
    /\ lists = [i \in 1..6 |-> IF i = 3 THEN <<2>> ELSE <<>>]
    /\ last = Did("append")

NextStruct ==
    \/ NewField(MaxStructObjs)
    \/ NewIDLBoundSpec(MaxStructObjs)
    \/ SetFieldName
    \/ AppendFields

SpecStruct == InitStruct /\ [][NextStruct]_vars

(***************************************************************************)
(* Scenario: Fields and Validators.                                        *)
(***************************************************************************)
NextField ==
    \/ NewField(MaxFieldObjs)
    \/ NewValidator(MaxFieldObjs)
    \/ SetValidatorPredicate
    \/ SetFieldCppType
    \/ SetFieldStructType
    \/ SetFieldEnumType
    \/ SetFieldValidator

SpecField == Init /\ [][NextField]_vars

(***************************************************************************)
(* Scenario: the settings, ServerParameter and ConfigOption.               *)
(***************************************************************************)
NextSetting ==
    \/ NewServerParameter(MaxSettingObjs)
    \/ NewConfigOption(MaxSettingObjs)
    \/ NewValidator(MaxSettingObjs)
    \/ NewCondition(MaxSettingObjs)
    \/ SetServerParameterAttr
    \/ SetConfigOptionAttr
    \/ SetSettingValidator
    \/ SetSettingCondition

SpecSetting == Init /\ [][NextSetting]_vars

(***************************************************************************)
(* Scenario: the Global of a document.                                     *)
(***************************************************************************)
NextGlobal ==
    \/ NewIDLAST(MaxGlobalObjs)
    \/ NewGlobal(MaxGlobalObjs)
    \/ NewConfigGlobal(MaxGlobalObjs)
    \/ SetGlobals
    \/ SetGlobalConfigs

SpecGlobal == Init /\ [][NextGlobal]_vars

(***************************************************************************)
(* Scenario: the ordered collections of nodes.  The five lists of an       *)
(* IDLAST, the fields of a Struct or Command, the values of an Enum.       *)
(***************************************************************************)
NextList ==
    \/ NewIDLAST(MaxListObjs)
    \/ NewStruct(MaxListObjs)
    \/ NewCommand(MaxListObjs)
    \/ NewField(MaxListObjs)
    \/ NewEnum(MaxListObjs)
    \/ NewEnumValue(MaxListObjs)
    \/ NewServerParameter(MaxListObjs)
    \/ NewConfigOption(MaxListObjs)
    \/ AppendCommands
    \/ AppendEnums
    \/ AppendStructs
    \/ AppendServerParameters
    \/ AppendConfigs
    \/ AppendFields
    \/ AppendValues

SpecList == Init /\ [][NextList]_vars

(***************************************************************************)
(* Scenario: the nodes that own lists.  Every class whose constructor      *)
(* evaluates `[]`, the appends of Structs and Commands to an IDLAST and    *)
(* the appends to the lists of text.                                       *)
(***************************************************************************)
NextFresh ==
    \/ NewIDLAST(MaxFreshObjs)
    \/ NewGlobal(MaxFreshObjs)
    \/ NewStruct(MaxFreshObjs)
    \/ NewCommand(MaxFreshObjs)
    \/ NewEnum(MaxFreshObjs)
    \/ NewServerParameter(MaxFreshObjs)
    \/ NewConfigOption(MaxFreshObjs)
    \/ AppendCommands
    \/ AppendStructs
    \/ AppendCppIncludes
    \/ AppendServerParameterNames
    \/ AppendConfigOptionTexts

SpecFresh == Init /\ [][NextFresh]_vars

(***************************************************************************)
(* Properties of the hand-over (SpecBound).                                *)
(***************************************************************************)
\* The object the last constructor call returned.
Newest == heap[Len(heap)]

\* The last operation was a call IDLBoundSpec(...) that returned an object.
BoundSpecReturned == last.op = "IDLBoundSpec" /\ ~last.raised

\* C1: every IDLBoundSpec that was constructed has exactly one of spec and
\* errors populated, and a call that succeeds stores exactly its two
\* arguments.
C1_ExactlyOneBranch ==
    /\ \A b \in Refs("IDLBoundSpec") :
           (heap[b].spec # NoneRef) # (heap[b].errors # None)
    /\ BoundSpecReturned =>
           /\ Newest.cls = "IDLBoundSpec"
           /\ Newest.spec = last.spec
           /\ Newest.errors = last.errors

\* An IDLBoundSpec holding an IDLAST exists beside one holding errors, and a
\* call has just returned.
C1_Witness ==
    /\ BoundSpecReturned
    /\ \E b \in Refs("IDLBoundSpec") : heap[b].spec # NoneRef
    /\ \E b \in Refs("IDLBoundSpec") : heap[b].errors # None

\* C2: a call IDLBoundSpec(spec, error_collection) with both arguments
\* populated, or with neither, raises; no object results from it and the
\* heap and the lists are as they were before the call.
C2_BothOrNeitherFails ==
    [][(/\ last'.op = "IDLBoundSpec"
        /\ (last'.spec # NoneRef) = (last'.errors # None))
       => /\ last'.raised
          /\ heap' = heap
          /\ lists' = lists]_vars

\* A call with both arguments populated has just raised, with objects on the
\* heap that it might have changed.
C2_Witness ==
    /\ last.op = "IDLBoundSpec"
    /\ last.raised
    /\ last.spec # NoneRef
    /\ last.errors # None
    /\ Refs("Struct") # {}

\* What a reader of the IDLAST a sees: its attributes, its lists, and the
\* Structs on its list with their fields.
View(a) ==
    [globals |-> heap[a].globals,
     commands |-> ListOf(a, "commands"),
     enums |-> ListOf(a, "enums"),
     structs |-> [i \in 1..Len(ListOf(a, "structs")) |->
                     <<heap[ListOf(a, "structs")[i]],
                       ListOf(ListOf(a, "structs")[i], "fields")>>],
     server_parameters |-> ListOf(a, "server_parameters"),
     configs |-> ListOf(a, "configs")]

\* C5 as stated: once an IDLBoundSpec holds an IDLAST, no step changes what
\* a reader of that IDLAST sees.
C5_FrozenAfterSuccess ==
    [][\A b \in Refs("IDLBoundSpec") :
           heap[b].spec # NoneRef => View(heap[b].spec)' = View(heap[b].spec)]_vars

\* C5, amended: the call IDLBoundSpec(spec, None) changes no object and no
\* list that existed before it, and the object it returns refers to the
\* IDLAST it was given (it holds no copy); an IDLBoundSpec, once constructed,
\* keeps its spec and errors.
C5_ConstructionChangesNothing ==
    [][/\ last'.op = "IDLBoundSpec" =>
              /\ lists' = lists
              /\ \A o \in Ids : heap'[o] = heap[o]
       /\ \A b \in Refs("IDLBoundSpec") : heap'[b] = heap[b]]_vars

\* An IDLBoundSpec has just been constructed over an IDLAST that already
\* lists a Struct.
C5_Witness ==
    /\ BoundSpecReturned
    /\ last.spec # NoneRef
    /\ ListOf(last.spec, "structs") # <<>>

(***************************************************************************)
(* Properties of one Struct (SpecStruct).                                  *)
(***************************************************************************)
\* The names of the Fields of Struct s, in the order of s.fields.
FieldNamesOf(s) ==
    [i \in 1..Len(ListOf(s, "fields")) |-> heap[ListOf(s, "fields")[i]].name]

\* Two Fields of Struct s share a name: two different Fields on s.fields
\* have been given the same name.
SharesAName(s) ==
    \E i, j \in 1..Len(ListOf(s, "fields")) :
        /\ ListOf(s, "fields")[i] # ListOf(s, "fields")[j]
        /\ FieldNamesOf(s)[i] # None
        /\ FieldNamesOf(s)[i] = FieldNamesOf(s)[j]

\* The Structs and Commands of IDLAST a.
StructsOf(a) ==
    {ListOf(a, "structs")[i] : i \in 1..Len(ListOf(a, "structs"))}
        \cup {ListOf(a, "commands")[i] : i \in 1..Len(ListOf(a, "commands"))}

\* C7 as stated: when IDLBoundSpec(ast, None) returns an IDLBoundSpec, no
\* Struct of ast has two Fields that share a name.
C7_UniqueFieldNames ==
    (BoundSpecReturned /\ last.spec # NoneRef) =>
        \A s \in StructsOf(last.spec) : ~SharesAName(s)

\* C7, amended: the model checks no names.  struct.fields.append(field)
\* always extends the sequence of Field names by the name of that Field,
\* whether the Struct has the name already or not, and IDLBoundSpec(ast,
\* None) returns an IDLBoundSpec whatever the Fields of ast are named.
C7_NamesAreNotChecked ==
    [][/\ last'.op = "append" =>
              /\ heap' = heap
              /\ \E s \in Refs("Struct") \cup Refs("Command"), f \in Refs("Field") :
                     /\ ListOf(s, "fields")' = Append(ListOf(s, "fields"), f)
                     /\ FieldNamesOf(s)' = Append(FieldNamesOf(s), heap[f].name)
       /\ (/\ last'.op = "IDLBoundSpec"
           /\ last'.spec # NoneRef
           /\ last'.errors = None) => ~last'.raised]_vars

\* An IDLBoundSpec has just been constructed over an IDLAST whose Struct has
\* two Fields, both named "a".
C7_Witness ==
    /\ BoundSpecReturned
    /\ last.spec # NoneRef
    /\ \E s \in StructsOf(last.spec) :
           /\ Len(ListOf(s, "fields")) = 2
           /\ ListOf(s, "fields")[1] # ListOf(s, "fields")[2]
           /\ FieldNamesOf(s) = <<"a", "a">>

(***************************************************************************)
(* Properties of Fields and Validators (SpecField).                        *)
(***************************************************************************)
\* Validator v carries at least one predicate.
NonEmpty(v) == \E k \in Predicates : heap[v][k] # None

TypesSet(f) ==
    Cardinality({k \in {"cpp_type", "struct_type"} : heap[f][k] # None}
                    \cup {k \in {"enum_type"} : heap[f][k]})

Hooks == {"from_bson", "append_bson", "from_string"}

\* Hook k of setting p; a ConfigOption has no such attribute.
Hook(p, k) == IF k \in DOMAIN heap[p] THEN heap[p][k] ELSE None

\* Setting p is bound to a variable and names no hook.
VariableBound(p) ==
    /\ heap[p].cpp_varname # None
    /\ \A k \in Hooks : Hook(p, k) = None

\* Setting p is bound to no variable, names all three hooks and carries
\* neither a default nor a validator.
HookBound(p) ==
    /\ heap[p].cpp_varname = None
    /\ \A k \in Hooks : Hook(p, k) # None
    /\ heap[p].default = None
    /\ heap[p].validator = NoneRef

NewHoldsNone ==
    /\ last.op = "IDLAST" => Newest.cls = "IDLAST" /\ Newest.globals = NoneRef
    /\ last.op = "Global" => Newest.cls = "Global" /\ Newest.configs = NoneRef

\* C9 as stated: an IDLAST holds at most one Global and a Global at most one
\* ConfigGlobal, none when new, and the Global of an IDLAST, once
\* populated, is never replaced by a second Global.
C9_GlobalPopulatedOnce ==
    [][/\ NewHoldsNone'
       /\ \A a \in Refs("IDLAST") :
              heap[a].globals # NoneRef => heap'[a].globals = heap[a].globals]_vars

\* C9, amended: an IDLAST has one place for a Global, which holds None or
\* one Global, and a Global one place for a ConfigGlobal, which holds None
\* or one ConfigGlobal; a new IDLAST holds no Global and a new Global no
\* ConfigGlobal.  The model does not keep a later assignment from replacing
\* the Global.
C9_AtMostOneGlobal ==
    /\ NewHoldsNone
    /\ \A a \in Refs("IDLAST") : heap[a].globals \in {NoneRef} \cup Refs("Global")
    /\ \A g \in Refs("Global") : heap[g].configs \in {NoneRef} \cup Refs("ConfigGlobal")

\* An IDLAST has just been constructed beside an IDLAST that holds a Global
\* with a ConfigGlobal.
C9_Witness ==
    /\ last.op = "IDLAST"
    /\ \E a \in Refs("IDLAST") :
           /\ heap[a].globals # NoneRef
           /\ heap[heap[a].globals].configs # NoneRef

C10_FreshLists ==
    [][/\ Len(heap') # Len(heap) =>
              /\ Cardinality({heap'[c[1]][c[2]] : c \in Collections'})
                     = Cardinality(Collections')
              /\ \A o \in Ids : heap'[o] = heap[o]
              /\ \A i \in 1..Len(lists) : lists'[i] = lists[i]
              /\ \A c \in Collections' :
                     c[1] \notin Ids => ListOf(c[1], c[2])' = <<>>
       /\ last'.op = "append" =>
              /\ heap' = heap
              /\ Len(lists') = Len(lists)
              /\ Cardinality({i \in 1..Len(lists) : lists'[i] # lists[i]}) = 1
       /\ last'.op = "Command" =>
              /\ Newest'.cls = "Command"
              /\ Newest'.strict = TRUE
              /\ Newest'.immutable = FALSE
              /\ lists'[Newest'.fields] = <<>>
              /\ Newest'.namespace = None
              /\ Newest'.command_field = NoneRef]_vars

\* Text has just been appended to a list of one ConfigOption while the same
\* list of another ConfigOption is empty.
C10_Witness ==
    /\ last.op = "append"
    /\ \E c, d \in Refs("ConfigOption") :
           /\ ListOf(c, "deprecated_name") # <<>>
           /\ ListOf(d, "deprecated_name") = <<>>

====
